---- MODULE Spec2Model ----
(***************************************************************************)
(* Model of the flenco backend generator: the generate and refresh         *)
(* commands, the per-model generators, the route registry (routes/index.ts)*)
(* maintained incrementally (updateRouteIndex) and wholesale               *)
(* (generateRouteIndexFile), and the request pipeline of a generated       *)
(* route module.                                                           *)
(*                                                                         *)
(* Text files are modelled by what the code reads from them: the registry  *)
(* as its sequence of lines, each line by the statement the template       *)
(* writes on it; a route module by its imports and the middleware chain of *)
(* each of its five endpoints.  Model names are sequences of characters so *)
(* that toLowerCase and String.includes are computed.                      *)
(***************************************************************************)
EXTENDS Integers, Sequences, FiniteSets, TLC

VARIABLES
    build,           \* which generator sources are installed: "base" or "metadata"
    caseSensitiveFs, \* whether path lookups of the host filesystem are case-sensitive
    db,              \* the database's tables: model name -> field lines
    schema,          \* prisma/schema.prisma as of the last `prisma db pull`
    routeFile,       \* src/routes/<stem>.route.ts
    controllerFile,  \* src/controllers/<stem>.controller.ts
    serviceFile,     \* src/services/<stem>.service.ts
    validationFile,  \* src/validation/<stem>.validation.ts
    registry,        \* src/routes/index.ts, as lines
    collectionFile,  \* api-collection.json, the request-collection document
    pc,              \* position of each concurrent updateRouteIndex call
    content,         \* the registry text each updateRouteIndex call has read
    arg,             \* the tableName each updateRouteIndex call was given
    chosen,          \* options the operator answered when the model was generated
    ncmd,            \* number of commands run so far
    nedit,           \* number of hand edits made so far
    op,              \* the last operation and what it observed
    resp,            \* the last HTTP request served and its response
    clock,           \* Date.now() of the server process, in units of CACHE_TTL / 2
    metadataCache,   \* metadataCache of metadata.route.ts
    cacheLastUpdated, \* cacheLastUpdated of metadata.route.ts
    metadataCalls    \* the getMetadata calls: position or outcome, and `now` while running

vars == <<build, caseSensitiveFs, db, schema, collectionFile, routeFile, controllerFile,
          serviceFile, validationFile, registry, pc, content, arg, chosen,
          ncmd, nedit, op, resp, clock, metadataCache, cacheLastUpdated,
          metadataCalls>>

\* the state of the running server's metadata route module
cacheVars == <<clock, metadataCache, cacheLastUpdated, metadataCalls>>

(***************************************************************************)
(* Bounds                                                                  *)
(***************************************************************************)
MaxCommands == 3
MaxEdits == 1
MaxDbChanges == 1
MaxCalls == 3
MaxTicks == 3

(***************************************************************************)
(* Names and letter case                                                   *)
(***************************************************************************)
UpperLetters == <<"A","B","C","D","E","F","G","H","I","J","K","L","M",
                  "N","O","P","Q","R","S","T","U","V","W","X","Y","Z">>
LowerLetters == <<"a","b","c","d","e","f","g","h","i","j","k","l","m",
                  "n","o","p","q","r","s","t","u","v","w","x","y","z">>

\* the lower-case form of each letter
LowerChar ==
    LET Letters == {UpperLetters[i] : i \in 1..26} \cup {LowerLetters[i] : i \in 1..26}
    IN  [c \in Letters |->
            IF \E i \in 1..26 : UpperLetters[i] = c
            THEN LowerLetters[CHOOSE i \in 1..26 : UpperLetters[i] = c]
            ELSE c]

\* String.prototype.toLowerCase
ToLowerCase(name) == [i \in 1..Len(name) |-> LowerChar[name[i]]]

\* the models of the database: names as declared (Prisma keeps the case)
Post == <<"P","o","s","t">>
user == <<"u","s","e","r">>
Tag == <<"T","a","g">>
Tables == {Post, user, Tag}

metadata == <<"m","e","t","a","d","a","t","a">>
Stems == {ToLowerCase(t) : t \in Tables} \cup {metadata}

\* a path at which no file exists; no value where one is optional
NoFile == [kind |-> "absent"]
None == [kind |-> "none"]

RouteSuffix == <<"R","o","u","t","e">>

(***************************************************************************)
(* Lines of the registry file                                              *)
(***************************************************************************)
Blank == [k |-> "blank"]
\* import { Router } from 'express';
ImportRouter == [k |-> "importRouter"]
\* import ${id}Route from './${stem}.route';
ImportLine(id, stem) == [k |-> "import", id |-> id, stem |-> stem]
\* const router = Router();
RouterDecl == [k |-> "decl"]
\* router.use('/${path}', ${id}Route);
UseLine(path, id) == [k |-> "use", path |-> path, id |-> id]
\* // Register routes        // System routes
Comment(text) == [k |-> "comment", text |-> text]
\* export default router;
ExportDefault == [k |-> "export"]

\* line.startsWith('import')
StartsWithImport(l) == l.k \in {"importRouter", "import"}
\* line.includes('router.use(')
IncludesRouterUse(l) == l.k = "use"
\* line.includes('export default')
IncludesExportDefault(l) == l.k = "export"

\* content.includes(`import ${tableName}Route`): a substring test, so the
\* needle matches any import whose identifier starts with tableName + "Route"
IncludesImportOf(text, tableName) ==
    LET IsPrefix(s, t) == Len(s) <= Len(t) /\ SubSeq(t, 1, Len(s)) = s
    IN
    \E i \in 1..Len(text) :
        /\ text[i].k = "import"
        /\ IsPrefix(tableName \o RouteSuffix, text[i].id \o RouteSuffix)

\* the mount paths a registry text registers
MountPaths(text) == {text[i].path : i \in {j \in 1..Len(text) : text[j].k = "use"}}
MountCount(text, path) ==
    Cardinality({i \in 1..Len(text) : text[i].k = "use" /\ text[i].path = path})

(***************************************************************************)
(* Route Registry Merger, incremental path: updateRouteIndex               *)
(***************************************************************************)
\* index.ts when the file does not exist (readFile fails with ENOENT)
NoIndex == <<[k |-> "ENOENT"]>>

\* fs.readFile(routeIndexPath) with its catch
ReadRouteIndex(reg) ==
    \* the content updateRouteIndex assumes when index.ts cannot be read
    LET DefaultIndexContent ==
            <<ImportRouter, Blank, RouterDecl, Blank, ExportDefault, Blank>>
    IN
    IF reg = NoIndex THEN DefaultIndexContent ELSE reg

\* the for loop over the lines: blank lines are skipped, the router
\* declaration ends the import section and starts the router section
RECURSIVE SplitSections(_, _, _, _)
SplitSections(lines, i, routerSection, acc) ==
    \* line.trim() === ''
    LET IsBlankLine(l) == l.k = "blank"
        \* line.includes('const router = Router()')
        IncludesRouterDecl(l) == l.k = "decl"
    IN
    IF i > Len(lines) THEN acc
    ELSE LET line == lines[i]
             inRouter == routerSection \/ IncludesRouterDecl(line)
         IN  IF IsBlankLine(line)
             THEN SplitSections(lines, i + 1, routerSection, acc)
             ELSE IF ~inRouter /\ StartsWithImport(line)
             THEN SplitSections(lines, i + 1, inRouter,
                      [acc EXCEPT !.importLines = Append(@, line)])
             ELSE IF inRouter /\ IncludesRouterUse(line)
             THEN SplitSections(lines, i + 1, inRouter,
                      [acc EXCEPT !.routerLines = Append(@, line)])
             ELSE SplitSections(lines, i + 1, inRouter,
                      [acc EXCEPT !.otherLines = Append(@, line)])

Sections(text) ==
    SplitSections(text, 1, FALSE,
                  [importLines |-> <<>>, routerLines |-> <<>>, otherLines |-> <<>>])

\* const newImport = `import ${tableName}Route from './${tableName.toLowerCase()}.route';`
NewImport(tableName) == ImportLine(tableName, ToLowerCase(tableName))
\* a mount statement that keeps the table name's case in the path
NewRouteKeepingCase(tableName) == UseLine(tableName, tableName)

\* const newRoute = `router.use('/${tableName.toLowerCase()}', ${tableName}Route);`
NewRoute(tableName) == UseLine(ToLowerCase(tableName), tableName)

\* a reassembly that forgets the mount statements it partitioned
NewContentDroppingMounts(text, tableName) ==
    LET s == Sections(text)
    IN  Append(s.importLines, NewImport(tableName))
        \o <<Blank, RouterDecl, Blank>>
        \o <<NewRoute(tableName)>>
        \o <<Blank>>
        \o SelectSeq(s.otherLines, IncludesExportDefault)

\* the file updateRouteIndex reassembles
NewContent(text, tableName) ==
    LET s == Sections(text)
    IN  Append(s.importLines, NewImport(tableName))
        \o <<Blank, RouterDecl, Blank>>
        \o Append(s.routerLines, NewRoute(tableName))
        \o <<Blank>>
        \o SelectSeq(s.otherLines, IncludesExportDefault)

\* updateRouteIndex without its includes test
AlwaysInsert(text, tableName) == TRUE

\* whether updateRouteIndex writes: the import is not in what it read
NeedsInsert(text, tableName) == ~IncludesImportOf(text, tableName)

\* index.ts after updateRouteIndex(tableName) ran alone on index.ts = reg
UpdateRouteIndex(reg, tableName) ==
    LET text == ReadRouteIndex(reg)
    IN  IF NeedsInsert(text, tableName) THEN NewContent(text, tableName) ELSE reg

(***************************************************************************)
(* Route Registry Merger, wholesale path: generateRouteIndexFile           *)
(***************************************************************************)
\* fs.readdir lists the directory in name order
DirOrder == <<metadata, ToLowerCase(Post), ToLowerCase(Tag), ToLowerCase(user)>>
\* ensureMetadataRouteExists: only the "metadata" sources have it
MetadataRouteText == [kind |-> "metadataRoute"]
\* a registration that leaves the system route unmounted
RegistrationWithoutSystemRoute(b, routeName) ==
    IF routeName = metadata THEN <<>> ELSE <<UseLine(routeName, routeName)>>

\* the registration lines of one route file
Registration(b, routeName) ==
    IF b = "metadata" /\ routeName = metadata
    THEN <<Comment("System routes"), UseLine(routeName, routeName)>>
    ELSE <<UseLine(routeName, routeName)>>

RECURSIVE Registrations(_, _)
Registrations(b, files) ==
    IF files = <<>> THEN <<>>
    ELSE Registration(b, Head(files)) \o Registrations(b, Tail(files))

\* an empty template substitution still leaves its line in the file
Block(lines) == IF lines = <<>> THEN <<Blank>> ELSE lines

\* the indexContent template over the listed route files
IndexContent(b, files) ==
    <<Blank, ImportRouter>>
    \o Block([i \in 1..Len(files) |-> ImportLine(files[i], files[i])])
    \o <<Blank, RouterDecl, Blank, Comment("Register routes")>>
    \o Block(Registrations(b, files))
    \o <<Blank, ExportDefault, Blank>>

\* generateRouteIndexFile: the directory and the registry it leaves
GenerateRouteIndexFile(b, rf) ==
    LET ReadDir(routes) == SelectSeq(DirOrder, LAMBDA s : routes[s] # NoFile)
        EnsureMetadataRouteExists ==
            IF b = "metadata" /\ rf[metadata] = NoFile
            THEN [rf EXCEPT ![metadata] = MetadataRouteText]
            ELSE rf
    IN
    LET dir == EnsureMetadataRouteExists
    IN  [routeFile |-> dir, registry |-> IndexContent(b, ReadDir(dir))]

\* generateInitialRouteIndex of the init command
InitialRouteIndex(b) ==
    IF b = "metadata"
    THEN <<Blank, ImportRouter, ImportLine(metadata, metadata), Blank, RouterDecl,
           Blank, Comment("System routes"), UseLine(metadata, metadata), Blank,
           ExportDefault, Blank>>
    ELSE <<Blank, ImportRouter, Blank, RouterDecl, Blank, ExportDefault, Blank>>

(***************************************************************************)
(* Schema Reader: getTableFields and mapPrismaTypeToGeneratorType          *)
(***************************************************************************)
\* a field line `<name> <Type>[?]` of a model block
FieldLine(name, type, optional) == [name |-> name, type |-> type, optional |-> optional]

\* the `coverImage String?` column a later migration adds
CoverImage == FieldLine("coverImage", "String", TRUE)

\* the tables the database holds
DbTables == {Post, user}

InitialDb ==
    [t \in DbTables |->
        IF t = Post
        THEN <<FieldLine("id", "Int", FALSE), FieldLine("title", "String", FALSE),
               FieldLine("body", "String", TRUE), FieldLine("authorId", "Int", FALSE)>>
        ELSE IF t = user
        THEN <<FieldLine("id", "Int", FALSE), FieldLine("name", "String", FALSE)>>
        ELSE <<FieldLine("id", "Int", FALSE)>>]

\* typeMap[prismaType] || 'string': parts[1] is the whole type token, so a
\* trailing ? is part of the key that is looked up.  typeMap is an object
\* literal: a key it inherits from Object.prototype is found too, and its
\* value (a function, truthy) is returned in place of a type name
MapPrismaTypeToGeneratorType(line) ==
    LET ObjectPrototypeKeys == {"constructor", "toString", "valueOf", "hasOwnProperty"}
    IN
    IF line.optional THEN "string"
    ELSE CASE line.type = "String" -> "string"
           [] line.type \in ObjectPrototypeKeys -> "[Function]"
           [] line.type = "Int" -> "number"
           [] line.type = "Float" -> "number"
           [] line.type = "Boolean" -> "boolean"
           [] line.type = "DateTime" -> "date"
           [] line.type = "Json" -> "object"
           [] OTHER -> "string"

\* the two ways the try block of getTableFields fails: readFile rejects, or
\* the model pattern has no match
ReadFileError == "ENOENT: no such file or directory, open 'prisma/schema.prisma'"
ModelNotFoundError == "Model not found in schema"

\* the catch block: whatever was thrown, a new error with a fixed message
Rethrown(error) == "Failed to read schema file"

\* getTableFields: the model block is matched by its name as written;
\* any failure is rethrown as 'Failed to read schema file'
GetTableFields(sch, tableName) ==
    \* one element of the array getTableFields returns
    LET ParseFieldLine(line) ==
            [name |-> line.name,
             type |-> MapPrismaTypeToGeneratorType(line),
             isRequired |-> ~line.optional]
    IN
    IF tableName \in DOMAIN sch
    THEN [ok |-> TRUE,
          fields |-> [i \in 1..Len(sch[tableName]) |-> ParseFieldLine(sch[tableName][i])]]
    ELSE [ok |-> FALSE, fields |-> <<>>, error |-> Rethrown(ModelNotFoundError)]

(***************************************************************************)
(* Template Synthesizer: the text of the four per-model files              *)
(***************************************************************************)
Endpoints == {"list", "getOne", "create", "update", "delete"}

ValidateStep(schemaName) == [mw |-> "validate", schema |-> schemaName]
HandlerStep(method) == [mw |-> "controller", method |-> method]

\* a template that never emits the auth() guard
AuthGuardOmitted(requiresAuth) == <<>>

\* ${requiresAuth ? 'auth(),' : ''}
AuthGuard(requiresAuth) ==
    LET AuthStep == [mw |-> "auth"]
    IN
    IF requiresAuth THEN <<AuthStep>> ELSE <<>>
\* ${hasFileUploads ? 'uploadFile("file"),' : ''}
UploadGuard(hasFileUploads) ==
    LET UploadStep == [mw |-> "uploadFile", field |-> "file"]
    IN
    IF hasFileUploads THEN <<UploadStep>> ELSE <<>>

\* a template that registers the upload step after validation
RouteChainValidatingFirst(e, requiresAuth, hasFileUploads) ==
    CASE e = "list" ->
            AuthGuard(requiresAuth)
            \o <<ValidateStep("paginationSchema"), HandlerStep("getAll")>>
      [] e = "getOne" ->
            AuthGuard(requiresAuth)
            \o <<ValidateStep("idParamSchema"), HandlerStep("getOne")>>
      [] e = "create" ->
            AuthGuard(requiresAuth) \o <<ValidateStep("createSchema")>>
            \o UploadGuard(hasFileUploads) \o <<HandlerStep("create")>>
      [] e = "update" ->
            AuthGuard(requiresAuth) \o <<ValidateStep("updateSchema")>>
            \o UploadGuard(hasFileUploads) \o <<HandlerStep("update")>>
      [] e = "delete" ->
            AuthGuard(requiresAuth)
            \o <<ValidateStep("idParamSchema"), HandlerStep("delete")>>

\* the middleware chain the route template registers for each endpoint
RouteChain(e, requiresAuth, hasFileUploads) ==
    CASE e = "list" ->
            AuthGuard(requiresAuth)
            \o <<ValidateStep("paginationSchema"), HandlerStep("getAll")>>
      [] e = "getOne" ->
            AuthGuard(requiresAuth)
            \o <<ValidateStep("idParamSchema"), HandlerStep("getOne")>>
      [] e = "create" ->
            AuthGuard(requiresAuth) \o UploadGuard(hasFileUploads)
            \o <<ValidateStep("createSchema"), HandlerStep("create")>>
      [] e = "update" ->
            AuthGuard(requiresAuth) \o UploadGuard(hasFileUploads)
            \o <<ValidateStep("updateSchema"), HandlerStep("update")>>
      [] e = "delete" ->
            AuthGuard(requiresAuth)
            \o <<ValidateStep("idParamSchema"), HandlerStep("delete")>>

\* routeContent of generateRoute.  The "base" sources embed the field list
\* and build the validators from it; the "metadata" sources import them
\* from the validation file.
RouteContent(b, tableName, fields, requiresAuth, hasFileUploads) ==
    \* the import lines the two options add to the route module: the names
    \* imported and the module path they come from
    LET AuthImport ==
            IF requiresAuth THEN {"auth", "auth.middleware"} ELSE {}
        UploadImport ==
            IF hasFileUploads THEN {"uploadFile", "uploadFiles", "upload.middleware"} ELSE {}
    IN
    [kind |-> "route",
     table |-> tableName,
     imports |-> {"Router", "validate", "BaseValidation", "paginationSchema", "catchAsync"}
                 \cup AuthImport \cup UploadImport,
     validators |-> IF b = "base" THEN "embedded" ELSE "imported",
     fields |-> IF b = "base" THEN fields ELSE <<>>,
     chain |-> [e \in Endpoints |-> RouteChain(e, requiresAuth, hasFileUploads)],
     custom |-> FALSE]

\* routeContent.includes(needle) for the tokens refresh and metadata look for
RouteIncludes(text, needle) ==
    needle \in text.imports
    \/ \E e \in Endpoints : \E i \in 1..Len(text.chain[e]) : text.chain[e][i].mw = needle

\* controllerContent / serviceContent: parameterised by the table name only
ControllerContent(tableName) == [kind |-> "controller", table |-> tableName, custom |-> FALSE]
ServiceContent(tableName) == [kind |-> "service", table |-> tableName, custom |-> FALSE]

\* mapTypeToZod
MapTypeToZod(dbType) ==
    CASE dbType = "number" -> "number"
      [] dbType = "boolean" -> "boolean"
      [] dbType = "date" -> "date"
      [] OTHER -> "string"

\* fieldValidations that never append .optional()
FieldValidationRequired(field) ==
    [name |-> field.name,
     zod |-> MapTypeToZod(field.type),
     checks |-> CASE field.type = "string" -> "min(1).max(255)"
                  [] field.type = "number" -> "min(0)"
                  [] OTHER -> "",
     optional |-> FALSE]

\* one entry of fieldValidations: z.<type>()[.min(1).max(255)|.min(0)][.optional()]
FieldValidation(field) ==
    [name |-> field.name,
     zod |-> MapTypeToZod(field.type),
     checks |-> CASE field.type = "string" -> "min(1).max(255)"
                  [] field.type = "number" -> "min(0)"
                  [] OTHER -> "",
     optional |-> ~field.isRequired]

\* validationContent: createSchema = z.object({fieldValidations}),
\* updateSchema = createSchema.partial()
ValidationContent(fields) ==
    [kind |-> "validation",
     createSchema |-> [i \in 1..Len(fields) |-> FieldValidation(fields[i])],
     custom |-> FALSE]

(***************************************************************************)
(* The generators: each takes the project files and returns them written   *)
(***************************************************************************)
\* fs.access: a path exists if a file of that name exists, compared as the
\* host filesystem compares names
Access(dir, name) ==
    IF caseSensitiveFs
    THEN name \in DOMAIN dir /\ dir[name] # NoFile
    ELSE \E s \in DOMAIN dir : ToLowerCase(s) = ToLowerCase(name) /\ dir[s] # NoFile

\* generateService: writes services/<lowercase>.service.ts
GenerateService(fs, tableName) ==
    [fs EXCEPT !.serviceFile[ToLowerCase(tableName)] = ServiceContent(tableName)]

\* a controller generator that unlinks the validation file of the model
GenerateControllerUnlinking(fs, tableName) ==
    [fs EXCEPT !.controllerFile[ToLowerCase(tableName)] = ControllerContent(tableName),
               !.validationFile[ToLowerCase(tableName)] = NoFile]

\* generateController: writes controllers/<lowercase>.controller.ts
GenerateController(fs, tableName) ==
    [fs EXCEPT !.controllerFile[ToLowerCase(tableName)] = ControllerContent(tableName)]

\* generateValidationFile without its early return
GenerateValidationFileAlways(fs, tableName, fields) ==
    [fs EXCEPT !.validationFile[ToLowerCase(tableName)] = ValidationContent(fields)]

\* generateValidationFile: returns early when the file can be accessed
GenerateValidationFile(fs, tableName, fields) ==
    IF fs.validationFile[ToLowerCase(tableName)] # NoFile
    THEN fs
    ELSE [fs EXCEPT !.validationFile[ToLowerCase(tableName)] = ValidationContent(fields)]

\* generateRoute: validation file (if the sources have it), route file,
\* then the wholesale rebuild of index.ts
GenerateRoute(b, fs, tableName, fields, requiresAuth, hasFileUploads) ==
    \* which sources write a validation file from generateRoute
    LET WritesValidationFile == b = "metadata"
    IN
    LET fs1 == IF WritesValidationFile
               THEN GenerateValidationFile(fs, tableName, fields)
               ELSE fs
        fs2 == [fs1 EXCEPT !.routeFile[ToLowerCase(tableName)] =
                   RouteContent(b, tableName, fields, requiresAuth, hasFileUploads)]
        idx == GenerateRouteIndexFile(b, fs2.routeFile)
    IN  [fs2 EXCEPT !.routeFile = idx.routeFile, !.registry = idx.registry]

\* generateComponents: the three generators, then updateRouteIndex
GenerateComponents(b, fs, tableName, fields, requiresAuth, hasFileUploads) ==
    LET fs1 == GenerateService(fs, tableName)
        fs2 == GenerateRoute(b, fs1, tableName, fields, requiresAuth, hasFileUploads)
        fs3 == GenerateController(fs2, tableName)
    IN  [fs3 EXCEPT !.registry = UpdateRouteIndex(fs3.registry, tableName)]

(***************************************************************************)
(* Project-State Inspector: getExistingTableApis                           *)
(***************************************************************************)
\* content.match(/import\s+(\w+)Route\s+from\s+'\.\/([^']+)'/g): the table names
RouteImports(text) ==
    LET lines == SelectSeq(text, LAMBDA l : l.k = "import")
    IN  [i \in 1..Len(lines) |-> lines[i].id]

\* the three fs.access checks; the service path keeps the table name's case
FilesExist(fs, tableName) ==
    /\ Access(fs.routeFile, ToLowerCase(tableName))
    /\ Access(fs.controllerFile, ToLowerCase(tableName))
    /\ Access(fs.serviceFile, tableName)

\* what the inner try block pushes for one table name
TableApiInfo(fs, sch, tableName) ==
    \* the file fs.readFile returns for a path that Access found
    LET FileAt(dir, name) ==
            dir[CHOOSE s \in DOMAIN dir : ToLowerCase(s) = ToLowerCase(name) /\ dir[s] # NoFile]
        \* the authentication-guard and file-upload tokens refresh looks for
        AuthToken == "authMiddleware"
        UploadTokens == {"upload.single", "upload.array"}
    IN
    LET routeContent == FileAt(fs.routeFile, ToLowerCase(tableName))
    IN  [tableName |-> tableName,
         requiresAuth |-> RouteIncludes(routeContent, AuthToken),
         hasFileUploads |-> \E tok \in UploadTokens : RouteIncludes(routeContent, tok),
         fields |-> GetTableFields(sch, tableName).fields]

\* getExistingTableApis: a table whose files are missing or whose fields
\* cannot be read is skipped with a warning; an unreadable index gives []
GetExistingTableApis(fs, sch) ==
    IF fs.registry = NoIndex THEN <<>>
    ELSE LET names == SelectSeq(RouteImports(fs.registry),
                          LAMBDA t : FilesExist(fs, t) /\ GetTableFields(sch, t).ok)
         IN  [i \in 1..Len(names) |-> TableApiInfo(fs, sch, names[i])]

\* the registry-listed names whose files exist and whose getTableFields call
\* threw inside the inner try block: the catch warns and goes on
SwallowedSchemaErrors(fs, sch) ==
    IF fs.registry = NoIndex THEN {}
    ELSE {RouteImports(fs.registry)[i] :
             i \in {k \in 1..Len(RouteImports(fs.registry)) :
                      /\ FilesExist(fs, RouteImports(fs.registry)[k])
                      /\ ~GetTableFields(sch, RouteImports(fs.registry)[k]).ok}}

(***************************************************************************)
(* refreshTableApis: the loop over the selected APIs                       *)
(***************************************************************************)
\* an iteration that regenerates from the field list discovery read before
\* the pull
RefreshOneFromDiscovery(b, fs, sch, api) ==
    GenerateRoute(b, GenerateController(GenerateService(fs, api.tableName),
                                        api.tableName),
                  api.tableName, api.fields, api.requiresAuth, api.hasFileUploads)

\* one iteration: fresh fields, then service, controller, route in sequence
RefreshOne(b, fs, sch, api) ==
    LET updatedFields == GetTableFields(sch, api.tableName).fields
        fs1 == GenerateService(fs, api.tableName)
        fs2 == GenerateController(fs1, api.tableName)
    IN  GenerateRoute(b, fs2, api.tableName, updatedFields,
                      api.requiresAuth, api.hasFileUploads)

\* the loop stops at the first table whose fields cannot be read (exit 1)
RECURSIVE RefreshLoop(_, _, _, _)
RefreshLoop(b, fs, sch, apis) ==
    IF apis = <<>> THEN fs
    ELSE IF ~GetTableFields(sch, Head(apis).tableName).ok THEN fs
    ELSE RefreshLoop(b, RefreshOne(b, fs, sch, Head(apis)), sch, Tail(apis))

(***************************************************************************)
(* The request-collection document: generatePostmanCollection              *)
(***************************************************************************)
\* generatePostmanCollection: the items are cleared and one folder is built
\* per route file of the routes directory; the file is written at its
\* fixed path.  during is the invocation that wrote it.
GeneratePostmanCollection(rf, sch, during) ==
    \* createRequestsForTable: the sample body leaves out id and the timestamps
    LET SampleBody(prisma, stem) ==
            \* the collection generator's own getTableFields: the field names of the
            \* model block whose name is the route file's stem, [] if there is none
            LET CollectionFields ==
                    IF stem \in DOMAIN prisma
                    THEN [i \in 1..Len(prisma[stem]) |-> prisma[stem][i].name]
                    ELSE <<>>
            IN
            SelectSeq(CollectionFields,
                      LAMBDA n : n \notin {"id", "createdAt", "updatedAt"})
    IN
    [kind |-> "collection",
     folders |-> [s \in {x \in Stems : rf[x] # NoFile} |-> SampleBody(sch, s)],
     during |-> during]

\* the collection initProject leaves: the later sources generate it, the
\* earlier ones do not
InitialCollection(b) ==
    IF b = "metadata"
    THEN GeneratePostmanCollection([s \in Stems |-> IF s = metadata THEN MetadataRouteText
                                                    ELSE NoFile], <<>>, 0)
    ELSE NoFile

(***************************************************************************)
(* State of a project and the commands run on it                           *)
(***************************************************************************)
Procs == {1, 2}

\* the project files as one value, as the generators take them
Files ==
    [routeFile |-> routeFile, controllerFile |-> controllerFile,
     serviceFile |-> serviceFile, validationFile |-> validationFile,
     registry |-> registry]

WriteFiles(fs) ==
    /\ routeFile' = fs.routeFile
    /\ controllerFile' = fs.controllerFile
    /\ serviceFile' = fs.serviceFile
    /\ validationFile' = fs.validationFile
    /\ registry' = fs.registry

Options(requiresAuth, hasFileUploads) ==
    [requiresAuth |-> requiresAuth, hasFileUploads |-> hasFileUploads]

\* the project as the init command leaves it: the initial index.ts and,
\* with the "metadata" sources, metadata.route.ts
InitFiles ==
    /\ routeFile = [s \in Stems |->
                       IF build = "metadata" /\ s = metadata
                       THEN MetadataRouteText ELSE NoFile]
    /\ controllerFile = [s \in Stems |-> NoFile]
    /\ serviceFile = [s \in Stems |-> NoFile]
    /\ validationFile = [s \in Stems |-> NoFile]
    /\ registry = InitialRouteIndex(build)
    /\ collectionFile = InitialCollection(build)

IdleCalls ==
    /\ pc = [p \in Procs |-> "idle"]
    /\ content = [p \in Procs |-> <<>>]
    /\ arg = [p \in Procs |-> <<>>]

\* const CACHE_TTL = 1000 * 60 * 5, the clock counting units of 150 seconds
CACHE_TTL == 2

\* the module-level state of metadata.route.ts when the server has loaded it:
\* metadataCache = null, cacheLastUpdated = 0, and a Date.now() that is more
\* than CACHE_TTL past the epoch; no request has arrived
ServerStarted ==
    /\ clock = CACHE_TTL + 1
    /\ metadataCache = None
    /\ cacheLastUpdated = 0
    /\ metadataCalls = [r \in 1..MaxCalls |-> [pc |-> "unsent", now |-> 0]]

Init ==
    /\ build \in {"base", "metadata"}
    /\ caseSensitiveFs \in BOOLEAN
    /\ db = InitialDb
    /\ schema = <<>>
    /\ InitFiles
    /\ IdleCalls
    /\ ServerStarted
    /\ chosen = [t \in Tables |-> None]
    /\ ncmd = 0
    /\ nedit = 0
    /\ op = [name |-> "init"]
    /\ resp = None

\* a migration adds the optional column coverImage to a table
DbChanges == Cardinality({t \in DOMAIN db : Len(db[t]) > Len(InitialDb[t])})
DbChange(t) ==
    /\ DbChanges < MaxDbChanges
    /\ Len(db[t]) = Len(InitialDb[t])
    /\ db' = [db EXCEPT ![t] = Append(@, CoverImage)]
    /\ op' = [name |-> "dbChange", table |-> t]
    /\ UNCHANGED <<cacheVars, collectionFile, build, caseSensitiveFs, schema, routeFile, controllerFile,
                   serviceFile, validationFile, registry, pc, content, arg,
                   chosen, ncmd, nedit, resp>>

\* the developer customises one generated file by hand
HandEdit(kind, s) ==
    /\ nedit < MaxEdits
    /\ s # metadata
    /\ Files[kind][s] # NoFile
    /\ ~Files[kind][s].custom
    /\ WriteFiles([Files EXCEPT ![kind][s].custom = TRUE])
    /\ nedit' = nedit + 1
    /\ op' = [name |-> "edit", kind |-> kind, stem |-> s]
    /\ UNCHANGED <<cacheVars, collectionFile, build, caseSensitiveFs, db, schema, pc, content, arg,
                   chosen, ncmd, resp>>

\* flenco-generate: prisma db pull, table and options prompts,
\* getTableFields, generateComponents
Generate(tableName, requiresAuth, hasFileUploads) ==
    /\ ncmd < MaxCommands
    /\ tableName \in DOMAIN db
    /\ schema' = db
    /\ WriteFiles(GenerateComponents(build, Files, tableName,
                                     GetTableFields(db, tableName).fields,
                                     requiresAuth, hasFileUploads))
    /\ chosen' = [chosen EXCEPT ![tableName] = Options(requiresAuth, hasFileUploads)]
    /\ collectionFile' =
          GeneratePostmanCollection(
              GenerateComponents(build, Files, tableName,
                                 GetTableFields(db, tableName).fields,
                                 requiresAuth, hasFileUploads).routeFile,
              db, ncmd + 1)
    /\ ncmd' = ncmd + 1
    /\ op' = [name |-> "generate", table |-> tableName,
              options |-> Options(requiresAuth, hasFileUploads), exit |-> 0]
    /\ UNCHANGED <<cacheVars, build, caseSensitiveFs, db, pc, content, arg, nedit, resp>>

\* a loop over every discovered API, whatever was ticked
SelectedApisAll(existingApis, tablesToRefresh) == existingApis

\* the APIs of existingApis the operator ticked, in discovery order
SelectedApis(existingApis, tablesToRefresh) ==
    SelectSeq(existingApis, LAMBDA api : api.tableName \in tablesToRefresh)

ApiNames(apis) == {apis[i].tableName : i \in 1..Len(apis)}

\* flenco-refresh: discovery, then (if anything was found) prisma db pull,
\* the checkbox prompt and the regeneration loop
Refresh(tablesToRefresh) ==
    /\ ncmd < MaxCommands
    /\ LET existingApis == GetExistingTableApis(Files, schema)
       IN  /\ IF existingApis = <<>>
              THEN /\ tablesToRefresh = {}
                   /\ UNCHANGED <<schema, routeFile, controllerFile, serviceFile,
                                  validationFile, registry>>
              ELSE /\ tablesToRefresh # {}
                   /\ tablesToRefresh \subseteq ApiNames(existingApis)
                   /\ schema' = db
                   /\ WriteFiles(RefreshLoop(build, Files, db,
                                     SelectedApis(existingApis, tablesToRefresh)))
           /\ op' = [name |-> "refresh", existingApis |-> existingApis,
                     selected |-> tablesToRefresh,
                     swallowed |-> SwallowedSchemaErrors(Files, schema),
                     exit |-> IF \E t \in tablesToRefresh : ~GetTableFields(db, t).ok
                              THEN 1 ELSE 0]
    /\ ncmd' = ncmd + 1
    /\ UNCHANGED <<cacheVars, collectionFile, build, caseSensitiveFs, db, pc, content, arg, chosen,
                   nedit, resp>>

\* the commands run against a database that migrations change
Next ==
    \/ \E t \in DbTables : DbChange(t)
    \/ \E t \in DbTables, a \in BOOLEAN, u \in BOOLEAN : Generate(t, a, u)
    \/ \E sel \in SUBSET DbTables : Refresh(sel)

Spec == Init /\ [][Next]_vars

\* the commands run on a project whose generated files the developer edits
EditNext ==
    \/ \E kind \in {"routeFile", "controllerFile", "serviceFile", "validationFile"},
          s \in Stems : HandEdit(kind, s)
    \/ \E t \in DbTables, a \in BOOLEAN, u \in BOOLEAN : Generate(t, a, u)
    \/ \E sel \in SUBSET DbTables : Refresh(sel)

EditSpec == Init /\ [][EditNext]_vars

\* the developer deletes one of the files that discovery looks for
RemoveFile(kind, s) ==
    /\ nedit < MaxEdits
    /\ s # metadata
    /\ Files[kind][s] # NoFile
    /\ WriteFiles([Files EXCEPT ![kind][s] = NoFile])
    /\ nedit' = nedit + 1
    /\ op' = [name |-> "remove", kind |-> kind, stem |-> s]
    /\ UNCHANGED <<cacheVars, collectionFile, build, caseSensitiveFs, db, schema, pc, content, arg,
                   chosen, ncmd, resp>>

\* a migration drops a table: the next prisma db pull removes its model block
DroppedTables == DbTables \ DOMAIN db
DropTable(t) ==
    /\ Cardinality(DroppedTables) < MaxDbChanges
    /\ t \in DOMAIN db
    /\ db' = [x \in DOMAIN db \ {t} |-> db[x]]
    /\ op' = [name |-> "dropTable", table |-> t]
    /\ UNCHANGED <<cacheVars, collectionFile, build, caseSensitiveFs, schema, routeFile, controllerFile,
                   serviceFile, validationFile, registry, pc, content, arg,
                   chosen, ncmd, nedit, resp>>

\* the commands run on a project from which the developer deletes files
DriftNext ==
    \/ \E kind \in {"routeFile", "controllerFile", "serviceFile"},
          s \in Stems : RemoveFile(kind, s)
    \/ \E t \in DbTables, a \in BOOLEAN, u \in BOOLEAN : Generate(t, a, u)
    \/ \E sel \in SUBSET DbTables : Refresh(sel)

DriftSpec == Init /\ [][DriftNext]_vars

\* the commands run against a database from which tables are dropped
DropNext ==
    \/ \E t \in DbTables : DropTable(t)
    \/ \E t \in DbTables, a \in BOOLEAN, u \in BOOLEAN : Generate(t, a, u)
    \/ \E sel \in SUBSET DbTables : Refresh(sel)

DropSpec == Init /\ [][DropNext]_vars

(***************************************************************************)
(* The commands when an external step (prisma db pull, prisma generate)    *)
(* rejects                                                                 *)
(***************************************************************************)
\* an external step placed after the writes of the command
FilesAtAbortAfterWrites(before, after) == after

\* the project files when an external step rejects: both steps are awaited
\* before the first generator is called, so nothing of what the command
\* would write (after) has been written
FilesAtAbort(before, after) == before

\* the schema file when a step rejects: a pull that succeeded has rewritten it
SchemaAtAbort(step) == IF step = "prisma generate" THEN db ELSE schema

\* flenco-generate whose external step rejects: the catch exits with 1
GenerateAborted(step, tableName) ==
    /\ ncmd < MaxCommands
    /\ tableName \in DOMAIN db
    /\ schema' = SchemaAtAbort(step)
    /\ WriteFiles(FilesAtAbort(Files,
                     GenerateComponents(build, Files, tableName,
                                        GetTableFields(db, tableName).fields,
                                        FALSE, FALSE)))
    /\ ncmd' = ncmd + 1
    /\ op' = [name |-> "generate", failed |-> step, exit |-> 1]
    /\ UNCHANGED <<cacheVars, collectionFile, build, caseSensitiveFs, db, pc, content, arg, chosen,
                   nedit, resp>>

\* flenco-refresh whose external step rejects: discovery has run and found
\* APIs, the prompt has not been reached, the catch exits with 1
RefreshAborted(step) ==
    /\ ncmd < MaxCommands
    /\ GetExistingTableApis(Files, schema) # <<>>
    /\ schema' = SchemaAtAbort(step)
    /\ WriteFiles(FilesAtAbort(Files,
                     RefreshLoop(build, Files, db, GetExistingTableApis(Files, schema))))
    /\ ncmd' = ncmd + 1
    /\ op' = [name |-> "refresh", failed |-> step, exit |-> 1]
    /\ UNCHANGED <<cacheVars, collectionFile, build, caseSensitiveFs, db, pc, content, arg, chosen,
                   nedit, resp>>

\* the commands with external steps that may reject, against a database
\* that migrations change
AbortNext ==
    \/ \E t \in DbTables : DbChange(t)
    \/ \E t \in DbTables, a \in BOOLEAN, u \in BOOLEAN : Generate(t, a, u)
    \/ \E sel \in SUBSET DbTables : Refresh(sel)
    \/ \E step \in {"prisma db pull", "prisma generate"}, t \in DbTables :
          GenerateAborted(step, t)
    \/ \E step \in {"prisma db pull", "prisma generate"} : RefreshAborted(step)

AbortSpec == Init /\ [][AbortNext]_vars

(***************************************************************************)
(* The schema reader applied to model blocks of every kind of field line   *)
(***************************************************************************)
\* a pulled schema whose user block has two field lines, each with one of the
\* type tokens a block can hold and with or without the trailing ?
ReaderInit ==
    LET TypeTokens == {"String", "Int", "Float", "Boolean", "DateTime", "Json",
                       "Decimal", "constructor"}
    IN  /\ build \in {"base", "metadata"}
        /\ caseSensitiveFs = TRUE
        /\ db \in {[InitialDb EXCEPT ![user] = <<FieldLine("age", t1, o1),
                                                 FieldLine("seen", t2, o2)>>] :
                       t1 \in TypeTokens, t2 \in TypeTokens,
                       o1 \in BOOLEAN, o2 \in BOOLEAN}
        /\ schema = db
        /\ InitFiles
        /\ IdleCalls
        /\ ServerStarted
        /\ chosen = [t \in Tables |-> None]
        /\ ncmd = 0
        /\ nedit = 0
        /\ op = [name |-> "init"]
        /\ resp = None

\* a call of getTableFields for a table name
ReadFields(tableName) ==
    /\ op.name = "init"
    /\ op' = [name |-> "getTableFields", table |-> tableName,
              result |-> GetTableFields(schema, tableName)]
    /\ UNCHANGED <<cacheVars, collectionFile, build, caseSensitiveFs, db, schema, routeFile,
                   controllerFile, serviceFile, validationFile, registry, pc,
                   content, arg, chosen, ncmd, nedit, resp>>

ReaderNext == \E t \in Tables : ReadFields(t)

ReaderSpec == ReaderInit /\ [][ReaderNext]_vars

(***************************************************************************)
(* The registry merger driven directly: updateRouteIndex calls (each a     *)
(* read followed, after its await, by a write) and generateRouteIndexFile, *)
(* over a routes directory into which per-model route files are written    *)
(***************************************************************************)
\* a write that merges into the file as it is when the write happens
WrittenContentFresh(read, current, tableName) == NewContent(current, tableName)

\* the text updateRouteIndex writes: built from the content it read at its
\* first await, not from the file as it is when the write happens
WrittenContent(read, current, tableName) == NewContent(read, tableName)

MergerInit ==
    /\ build \in {"base", "metadata"}
    /\ caseSensitiveFs = TRUE
    /\ db = InitialDb
    /\ schema = <<>>
    /\ InitFiles
    /\ IdleCalls
    /\ ServerStarted
    /\ chosen = [t \in Tables |-> None]
    /\ ncmd = 0
    /\ nedit = 0
    /\ op = [name |-> "init"]
    /\ resp = None

\* a generator writes the route file of a model (the index is not touched)
WriteRouteFile(tableName) ==
    /\ routeFile[ToLowerCase(tableName)] = NoFile
    /\ routeFile' = [routeFile EXCEPT ![ToLowerCase(tableName)] =
                        RouteContent(build, tableName, <<>>, FALSE, FALSE)]
    /\ op' = [name |-> "writeRouteFile", table |-> tableName]
    /\ UNCHANGED <<cacheVars, collectionFile, build, caseSensitiveFs, db, schema, controllerFile, serviceFile,
                   validationFile, registry, pc, content, arg, chosen, ncmd,
                   nedit, resp>>

\* index.ts is removed from the project
RemoveIndex ==
    /\ registry # NoIndex
    /\ \A p \in Procs : pc[p] = "idle"
    /\ registry' = NoIndex
    /\ op' = [name |-> "removeIndex"]
    /\ UNCHANGED <<cacheVars, collectionFile, build, caseSensitiveFs, db, schema, routeFile, controllerFile,
                   serviceFile, validationFile, pc, content, arg, chosen, ncmd,
                   nedit, resp>>

\* updateRouteIndex up to its first await: content = readFile(index.ts)
AddRouteRead(p, tableName) ==
    /\ pc[p] = "idle"
    /\ ncmd < MaxCalls
    /\ ncmd' = ncmd + 1
    /\ pc' = [pc EXCEPT ![p] = "read"]
    /\ content' = [content EXCEPT ![p] = ReadRouteIndex(registry)]
    /\ arg' = [arg EXCEPT ![p] = tableName]
    /\ op' = [name |-> "addRouteRead", proc |-> p, table |-> tableName]
    /\ UNCHANGED <<cacheVars, collectionFile, build, caseSensitiveFs, db, schema, routeFile, controllerFile,
                   serviceFile, validationFile, registry, chosen, nedit, resp>>

\* the rest of updateRouteIndex: the includes test and the writeFile
AddRouteWrite(p) ==
    /\ pc[p] = "read"
    /\ registry' = IF NeedsInsert(content[p], arg[p])
                   THEN WrittenContent(content[p], ReadRouteIndex(registry), arg[p])
                   ELSE registry
    /\ pc' = [pc EXCEPT ![p] = "idle"]
    /\ content' = [content EXCEPT ![p] = <<>>]
    /\ arg' = [arg EXCEPT ![p] = <<>>]
    /\ op' = [name |-> "addRoute", proc |-> p, table |-> arg[p],
              wrote |-> NeedsInsert(content[p], arg[p]),
              lost |-> {t \in Tables :
                          /\ IncludesImportOf(ReadRouteIndex(registry), t)
                          /\ ~IncludesImportOf(registry', t)}]
    /\ UNCHANGED <<cacheVars, collectionFile, build, caseSensitiveFs, db, schema, routeFile, controllerFile,
                   serviceFile, validationFile, chosen, ncmd, nedit, resp>>

\* generateRouteIndexFile run on the routes directory
RebuildFromDirectory ==
    /\ \A p \in Procs : pc[p] = "idle"
    /\ ncmd < MaxCalls
    /\ ncmd' = ncmd + 1
    /\ LET r == GenerateRouteIndexFile(build, routeFile)
       IN  /\ routeFile' = r.routeFile
           /\ registry' = r.registry
    /\ op' = [name |-> "rebuild",
              dropped |-> MountPaths(ReadRouteIndex(registry)) \ MountPaths(registry')]
    /\ UNCHANGED <<cacheVars, collectionFile, build, caseSensitiveFs, db, schema, controllerFile, serviceFile,
                   validationFile, pc, content, arg, chosen, nedit, resp>>

MergerNext ==
    \/ \E t \in Tables : WriteRouteFile(t)
    \/ RemoveIndex
    \/ \E p \in Procs, t \in Tables : AddRouteRead(p, t)
    \/ \E p \in Procs : AddRouteWrite(p)
    \/ RebuildFromDirectory

MergerSpec == MergerInit /\ [][MergerNext]_vars

(***************************************************************************)
(* The validators of a route module as zod evaluates them                  *)
(***************************************************************************)
\* JavaScript values a request can carry
Text == [type |-> "string", v |-> "text"]
Empty == [type |-> "string", v |-> ""]
Num == [type |-> "number", v |-> "1"]
Negative == [type |-> "number", v |-> "-1"]
Obj(props) == [type |-> "object", props |-> props]
NoProps == <<>>

\* z.object(shape), as a property of an enclosing object
ZObject(name, shape) ==
    [name |-> name, zod |-> "object", checks |-> "", optional |-> FALSE, shape |-> shape]

\* a z.string() property
ZString(name, optional) ==
    [name |-> name, zod |-> "string", checks |-> "", optional |-> optional]

\* schema.parse(value): an object schema checks each property of its shape,
\* an absent property passes only if optional, unknown keys are stripped
RECURSIVE Parses(_, _)
Parses(zschema, value) ==
    CASE zschema.zod = "object" ->
            /\ value.type = "object"
            /\ \A i \in 1..Len(zschema.shape) :
                  LET f == zschema.shape[i]
                  IN  IF f.name \in DOMAIN value.props
                      THEN Parses(f, value.props[f.name])
                      ELSE f.optional
      [] zschema.zod = "passthrough" -> value.type = "object"
      [] zschema.zod = "string" ->
            /\ value.type = "string"
            /\ zschema.checks = "min(1).max(255)" => value # Empty
      [] zschema.zod = "number" ->
            /\ value.type = "number"
            /\ zschema.checks = "min(0)" => value # Negative
      [] OTHER -> value.type = zschema.zod

\* one property of BaseValidation.generateCreateSchema's schemaObject
BaseZodType(field) ==
    [name |-> field.name,
     zod |-> CASE field.type = "string" -> "string"
               [] field.type = "number" -> "number"
               [] field.type = "boolean" -> "boolean"
               [] field.type = "date" -> "datetime"
               [] field.type = "object" -> "passthrough"
               [] OTHER -> "string",
     checks |-> "",
     optional |-> ~field.isRequired]

\* a partial() that leaves the properties as they are
PartialKeepingRequired(shape) == shape

\* .partial(): every property of the shape optional
Partial(shape) == [i \in 1..Len(shape) |-> [shape[i] EXCEPT !.optional = TRUE]]

\* BaseValidation.generateCreateSchema: z.object({ body: z.object(schemaObject) })
GenerateCreateSchema(fields) ==
    ZObject("", <<ZObject("body", [i \in 1..Len(fields) |-> BaseZodType(fields[i])])>>)

\* params: z.object({ id: z.string().transform(Number) })
IdParams == ZObject("params", <<ZString("id", FALSE)>>)

\* BaseValidation.generateUpdateSchema: params.id and the partial body
GenerateUpdateSchema(fields) ==
    ZObject("", <<IdParams,
                  ZObject("body", Partial(GenerateCreateSchema(fields).shape[1].shape))>>)

\* paginationSchema of common.validation: every query property optional
PaginationSchema ==
    ZObject("", <<ZObject("query", <<ZString("page", TRUE), ZString("limit", TRUE),
                                     ZString("sortBy", TRUE), ZString("sortOrder", TRUE),
                                     ZString("search", TRUE), ZString("status", TRUE)>>)>>)

\* createSchema of a validation file: z.object({ fieldValidations })
FileCreateSchema(vfile) == ZObject("", vfile.createSchema)

\* updateSchema of a validation file: createSchema.partial()
FileUpdateSchema(vfile) == ZObject("", Partial(vfile.createSchema))

\* the schema a route module passes to validate(): built from the embedded
\* field list, or imported from the model's validation file
SchemaOf(text, vfile, schemaName) ==
    \* BaseValidation.idParamSchema
    LET IdParamSchema == ZObject("", <<IdParams>>)
    IN
    CASE schemaName = "paginationSchema" -> PaginationSchema
      [] schemaName = "idParamSchema" -> IdParamSchema
      [] schemaName = "createSchema" ->
            IF text.validators = "embedded" THEN GenerateCreateSchema(text.fields)
            ELSE FileCreateSchema(vfile)
      [] schemaName = "updateSchema" ->
            IF text.validators = "embedded" THEN GenerateUpdateSchema(text.fields)
            ELSE FileUpdateSchema(vfile)

(***************************************************************************)
(* Serving requests with the generated route modules: Express runs the     *)
(* middleware chain of the matched endpoint in order until one of them     *)
(* responds or passes an error to the global error handler                 *)
(***************************************************************************)
\* the Authorization headers a request may carry
NoHeader == [present |-> FALSE, scheme |-> "", verifies |-> FALSE]
\* the value of a column's semantic type
CanonicalValue(line) == IF line.type \in {"Int", "Float"} THEN Num ELSE Text

FieldNames(lines) == {lines[i].name : i \in 1..Len(lines)}
LineOf(lines, n) == lines[CHOOSE i \in 1..Len(lines) : lines[i].name = n]

\* a body holding the named columns, each with a value of its semantic type
BodyOf(lines, names) == Obj([n \in names |-> CanonicalValue(LineOf(lines, n))])
CompleteBody(lines) == BodyOf(lines, FieldNames(lines))
EmptyBody == Obj(NoProps)

\* a request: its Authorization header, its file part (a request with a
\* file part is multipart), the fields of its body, and whether the record
\* its id names exists
Requests(lines) ==
    LET Headers ==
            {NoHeader,
             [present |-> TRUE, scheme |-> "Basic", verifies |-> FALSE],
             [present |-> TRUE, scheme |-> "Bearer", verifies |-> FALSE],
             [present |-> TRUE, scheme |-> "Bearer", verifies |-> TRUE]}
        \* the file part of a multipart request: none, or its mime type
        FileParts == {"none", "image/png", "text/plain"}
    IN
    [authorization : Headers, file : FileParts,
     body : {CompleteBody(lines), EmptyBody}, exists : BOOLEAN]

Continue == [next |-> TRUE, status |-> 0]
Respond(status) == [next |-> FALSE, status |-> status]

\* the auth middleware: AppError 401 for a missing or malformed header and
\* for a token JWTUtil.verifyToken rejects; the error handler answers with
\* the error's statusCode
Auth(req) ==
    \* authHeader?.startsWith('Bearer ')
    LET StartsWithBearer(h) == h.present /\ h.scheme = "Bearer"
    IN
    IF ~StartsWithBearer(req.authorization) THEN Respond(401)
    ELSE IF ~req.authorization.verifies THEN Respond(401)
    ELSE Continue

\* uploadFile(field): multer's fileFilter rejects other mime types with AppError 400
UploadFile(req) ==
    LET AllowedMimes == {"image/jpeg", "image/png", "image/gif", "application/pdf"}
    IN
    IF req.file = "none" \/ req.file \in AllowedMimes THEN Continue ELSE Respond(400)

HasRun(ran, mw) == \E i \in 1..Len(ran) : ran[i] = mw

\* req.body: express.json() parses a JSON request; a multipart request is
\* parsed by multer if the chain ran it, and by nothing otherwise
ParsedBody(ran, req) ==
    \* the text fields of a multipart body as multer leaves them: strings
    LET AsText(body) ==
            Obj([n \in DOMAIN body.props |->
                    IF body.props[n].type = "string" THEN body.props[n] ELSE Text])
    IN
    IF req.file = "none" THEN req.body
    ELSE IF HasRun(ran, "uploadFile") THEN AsText(req.body)
    ELSE EmptyBody

\* the object the validate middleware hands to schema.parseAsync
Envelope(e, body) ==
    \* req.params of the endpoint's path
    LET Params ==
            IF e \in {"getOne", "update", "delete"} THEN Obj([n \in {"id"} |-> Text])
            ELSE Obj(NoProps)
    IN
    Obj([n \in {"body", "query", "params"} |->
            CASE n = "body" -> body
              [] n = "query" -> Obj(NoProps)
              [] n = "params" -> Params])

\* the validate middleware: 400 when the schema rejects the envelope
Validate(zschema, e, body) ==
    IF Parses(zschema, Envelope(e, body)) THEN Continue ELSE Respond(400)

\* prisma.<model>.create({ data }): the data must hold every required
\* column, and every value must be of its column's type
PrismaAccepts(lines, body) ==
    /\ DOMAIN body.props \subseteq FieldNames(lines)
    /\ \A i \in 1..Len(lines) :
          IF lines[i].name \in DOMAIN body.props
          THEN body.props[lines[i].name].type = CanonicalValue(lines[i]).type
          ELSE lines[i].optional

\* the controller the single-command entry point writes: a class that
\* extends BaseController and adds no method of its own
ExtendingControllerContent(tableName) ==
    [kind |-> "controller", table |-> tableName, custom |-> FALSE,
     extends |-> "BaseController"]

\* the methods of the controller template over the generated service:
\* findById throws when there is no item, update and delete rethrow any
\* prisma error as 'not found'; the catch blocks answer 404 (400 in create)
GeneratedController(method, lines, req, body) ==
    CASE method = "getAll" -> Respond(200)
      [] method = "getOne" -> IF req.exists THEN Respond(200) ELSE Respond(404)
      [] method = "create" -> IF PrismaAccepts(lines, body) THEN Respond(201) ELSE Respond(400)
      [] method = "update" ->
            IF req.exists /\ PrismaAccepts(Partial(lines), body)
            THEN Respond(200) ELSE Respond(404)
      [] method = "delete" -> IF req.exists THEN Respond(204) ELSE Respond(404)

\* the methods of BaseController: getOne throws AppError 404 when there is
\* no item; every other error goes to next(error) as prisma threw it, and
\* the error handler answers statusCode || 500
BaseController(method, lines, req, body) ==
    CASE method = "getAll" -> Respond(200)
      [] method = "getOne" -> IF req.exists THEN Respond(200) ELSE Respond(404)
      [] method = "create" -> IF PrismaAccepts(lines, body) THEN Respond(201) ELSE Respond(500)
      [] method = "update" ->
            IF req.exists /\ PrismaAccepts(Partial(lines), body)
            THEN Respond(200) ELSE Respond(500)
      [] method = "delete" -> IF req.exists THEN Respond(204) ELSE Respond(500)

\* controller.<method> of the model's controller file
Controller(text, method, lines, req, body) ==
    LET ExtendsBaseController == "extends" \in DOMAIN text
    IN
    IF ExtendsBaseController
    THEN BaseController(method, lines, req, body)
    ELSE GeneratedController(method, lines, req, body)

\* one middleware of the chain of endpoint e of table t, after ran
StepOutcome(step, t, e, req, ran) ==
    CASE step.mw = "auth" -> Auth(req)
      [] step.mw = "uploadFile" -> UploadFile(req)
      [] step.mw = "validate" ->
            Validate(SchemaOf(routeFile[ToLowerCase(t)], validationFile[ToLowerCase(t)],
                              step.schema),
                     e, ParsedBody(ran, req))
      [] step.mw = "controller" ->
            Controller(controllerFile[ToLowerCase(t)], step.method, db[t], req,
                       ParsedBody(ran, req))

\* Express: each middleware runs only if the one before it called next()
RECURSIVE RunChain(_, _, _, _, _)
RunChain(chain, t, e, req, ran) ==
    IF chain = <<>> THEN [ran |-> ran, status |-> 404]
    ELSE LET out == StepOutcome(Head(chain), t, e, req, ran)
         IN  IF out.next
             THEN RunChain(Tail(chain), t, e, req, Append(ran, Head(chain).mw))
             ELSE [ran |-> Append(ran, Head(chain).mw), status |-> out.status]

\* the project after the operator generated every table of the database
RECURSIVE GenerateAll(_, _, _)
GenerateAll(fs, tables, options) ==
    IF tables = <<>> THEN fs
    ELSE LET t == Head(tables)
         IN  GenerateAll(GenerateComponents(build, fs, t, GetTableFields(db, t).fields,
                                            options[t].requiresAuth,
                                            options[t].hasFileUploads),
                         Tail(tables), options)

\* the controllers of a project as the single-command entry point writes them
ControllersOfMain(dir) ==
    [s \in DOMAIN dir |->
        IF dir[s] = NoFile THEN NoFile ELSE ExtendingControllerContent(dir[s].table)]

\* a freshly initialised project in which Post and user were generated
\* with the chosen options, by the generate command or (if fromMain) by the
\* single-command entry point
Generated(fromMain) ==
    LET AllOptions == {Options(a, u) : a \in BOOLEAN, u \in BOOLEAN}
    IN
    /\ chosen \in [Tables -> AllOptions \cup {None}]
    /\ \A t \in Tables : chosen[t] = None <=> t \notin DbTables
    /\ LET fs == GenerateAll(
                    [routeFile |-> [s \in Stems |->
                                       IF build = "metadata" /\ s = metadata
                                       THEN MetadataRouteText ELSE NoFile],
                     controllerFile |-> [s \in Stems |-> NoFile],
                     serviceFile |-> [s \in Stems |-> NoFile],
                     validationFile |-> [s \in Stems |-> NoFile],
                     registry |-> InitialRouteIndex(build)],
                    <<Post, user>>, chosen)
       IN  /\ routeFile = fs.routeFile
           /\ controllerFile \in {IF m THEN ControllersOfMain(fs.controllerFile)
                                         ELSE fs.controllerFile : m \in fromMain}
           /\ serviceFile = fs.serviceFile
           /\ validationFile = fs.validationFile
           /\ registry = fs.registry
           /\ collectionFile = GeneratePostmanCollection(fs.routeFile, db, 0)
    /\ IdleCalls
    /\ ServerStarted
    /\ ncmd = 0
    /\ nedit = 0
    /\ op = [name |-> "init"]
    /\ resp = None

ServeInit ==
    /\ build \in {"base", "metadata"}
    /\ caseSensitiveFs = TRUE
    /\ db = InitialDb
    /\ schema = InitialDb
    /\ Generated(BOOLEAN)

\* one request to /api/<stem> served by the model's route module
HandleRequest(tableName, e, req) ==
    /\ resp = None
    /\ LET out == RunChain(routeFile[ToLowerCase(tableName)].chain[e],
                           tableName, e, req, <<>>)
       IN  resp' = [table |-> tableName, endpoint |-> e, request |-> req,
                    ran |-> out.ran, status |-> out.status]
    /\ UNCHANGED <<cacheVars, collectionFile, build, caseSensitiveFs, db, schema, routeFile, controllerFile,
                   serviceFile, validationFile, registry, pc, content, arg, chosen,
                   ncmd, nedit, op>>

\* the response has gone out (res.status(..).json(..)); the server is ready
\* for the next request
ResponseSent ==
    /\ resp # None
    /\ resp' = None
    /\ UNCHANGED <<cacheVars, collectionFile, build, caseSensitiveFs, db, schema, routeFile, controllerFile,
                   serviceFile, validationFile, registry, pc, content, arg, chosen,
                   ncmd, nedit, op>>

ServeNext ==
    \/ \E t \in DbTables :
          \E e \in Endpoints, req \in Requests(db[t]) : HandleRequest(t, e, req)
    \/ ResponseSent

ServeSpec == ServeInit /\ [][ServeNext]_vars

(***************************************************************************)
(* The metadata route at work: getMetadata and its module-level cache      *)
(***************************************************************************)
\* const requiresAuth = routeContent.includes('authMiddleware')
MetadataRequiresAuth(routeContent) == RouteIncludes(routeContent, "authMiddleware")

\* metadata.endpoints as the scan of src/routes fills it: the entry of the
\* metadata route itself, then one entry per route file, keyed by the file
\* stem; the five endpoints of a resource carry the same requiresAuth
MetadataEndpoints(rf) ==
    [s \in {metadata} \cup {x \in DOMAIN rf : rf[x] # NoFile} |->
        IF s = metadata THEN [requiresAuth |-> FALSE]
        ELSE [requiresAuth |-> MetadataRequiresAuth(rf[s])]]

\* a cache test that only asks whether a snapshot is stored
CacheValidIgnoringAge(now) == metadataCache # None

\* metadataCache && (now - cacheLastUpdated < CACHE_TTL)
CacheValid(now) == metadataCache # None /\ now - cacheLastUpdated < CACHE_TTL

\* a running generated server of the current sources
CacheInit ==
    /\ build = "metadata"
    /\ caseSensitiveFs = TRUE
    /\ db = InitialDb
    /\ schema = InitialDb
    /\ Generated({FALSE})

\* the wall clock advances
Tick ==
    /\ clock < CACHE_TTL + 1 + MaxTicks
    /\ clock' = clock + 1
    /\ UNCHANGED <<metadataCache, cacheLastUpdated, metadataCalls, collectionFile, build,
                   caseSensitiveFs, db, schema, routeFile, controllerFile, serviceFile,
                   validationFile, registry, pc, content, arg, chosen, ncmd, nedit, op,
                   resp>>

\* GET /api/metadata arrives: getMetadata captures `now` and either answers
\* from the cache or goes on to its awaits
GetMetadata(r) ==
    /\ metadataCalls[r].pc = "unsent"
    /\ \A q \in 1..(r - 1) : metadataCalls[q].pc # "unsent"
    /\ IF CacheValid(clock)
       THEN /\ metadataCalls' = [metadataCalls EXCEPT ![r].pc = "cached"]
            /\ resp' = [request |-> r, now |-> clock, status |-> 200,
                        body |-> metadataCache]
       ELSE /\ metadataCalls' = [metadataCalls EXCEPT ![r] =
                                    [pc |-> "awaiting", now |-> clock]]
            /\ resp' = resp
    /\ UNCHANGED <<clock, metadataCache, cacheLastUpdated, collectionFile, build,
                   caseSensitiveFs, db, schema, routeFile, controllerFile, serviceFile,
                   validationFile, registry, pc, content, arg, chosen, ncmd, nedit, op>>

\* package.json, the listing of src/routes, getModels and the route files
\* have been read: the snapshot is stored in the cache and sent
StoreMetadata(r) ==
    /\ metadataCalls[r].pc = "awaiting"
    /\ LET snapshot == [endpoints |-> MetadataEndpoints(routeFile), request |-> r]
       IN  /\ metadataCache' = snapshot
           \* cacheLastUpdated = now, the Date.now() captured on entry
           /\ cacheLastUpdated' = metadataCalls[r].now
           /\ resp' = [request |-> r, now |-> metadataCalls[r].now, status |-> 200,
                       body |-> snapshot]
    /\ metadataCalls' = [metadataCalls EXCEPT ![r] = [pc |-> "stored", now |-> 0]]
    /\ UNCHANGED <<clock, collectionFile, build, caseSensitiveFs, db, schema, routeFile,
                   controllerFile, serviceFile, validationFile, registry, pc, content,
                   arg, chosen, ncmd, nedit, op>>

\* one of the awaited reads rejects: catchAsync hands the error to next()
GetMetadataRejects(r) ==
    /\ metadataCalls[r].pc = "awaiting"
    /\ resp' = [request |-> r, now |-> metadataCalls[r].now, status |-> 500,
                body |-> None]
    /\ metadataCalls' = [metadataCalls EXCEPT ![r] = [pc |-> "rejected", now |-> 0]]
    /\ UNCHANGED <<clock, metadataCache, cacheLastUpdated, collectionFile, build,
                   caseSensitiveFs, db, schema, routeFile, controllerFile, serviceFile,
                   validationFile, registry, pc, content, arg, chosen, ncmd, nedit, op>>

CacheNext ==
    \/ Tick
    \/ \E r \in 1..MaxCalls : GetMetadata(r)
    \/ \E r \in 1..MaxCalls : StoreMetadata(r)
    \/ \E r \in 1..MaxCalls : GetMetadataRejects(r)

CacheSpec == CacheInit /\ [][CacheNext]_vars

(***************************************************************************)
(* The validators at work: create and update requests of authenticated     *)
(* clients against projects generated from schemas that differ in which    *)
(* columns are optional                                                    *)
(***************************************************************************)
Bearer == [present |-> TRUE, scheme |-> "Bearer", verifies |-> TRUE]

BodyRequests(lines) ==
    LET Bodies ==
            \* the bodies a client sends for a table: every subset of its columns with
            \* well-typed values, and the complete body with one value replaced
            LET JsValues == {Text, Empty, Num, Negative}
            IN
            {BodyOf(lines, names) : names \in SUBSET FieldNames(lines)}
            \cup {Obj([CompleteBody(lines).props EXCEPT ![n] = v]) :
                     n \in FieldNames(lines), v \in JsValues}
    IN
    [authorization : {Bearer}, file : {"none", "image/png"},
     body : Bodies, exists : BOOLEAN]

ValidateInit ==
    LET SchemaVariants ==
            \* the user block with each of its columns required or optional
            LET UserBlocks ==
                    {<<FieldLine("id", "Int", o1), FieldLine("name", "String", o2)>> :
                        o1 \in BOOLEAN, o2 \in BOOLEAN}
            IN
            {[t \in DbTables |-> IF t = user THEN u ELSE InitialDb[t]] : u \in UserBlocks}
    IN
    /\ build \in {"base", "metadata"}
    /\ caseSensitiveFs = TRUE
    /\ db \in SchemaVariants
    /\ schema = db
    /\ Generated({FALSE})
    /\ chosen[Post] = chosen[user]

ValidateNext ==
    \/ \E t \in DbTables :
          \E e \in {"create", "update"}, req \in BodyRequests(db[t]) :
              HandleRequest(t, e, req)
    \/ ResponseSent

ValidateSpec == ValidateInit /\ [][ValidateNext]_vars

(***************************************************************************)
(* Properties of the commands (checked under Spec; C9 under EditSpec)      *)
(***************************************************************************)
Stem(tableName) == ToLowerCase(tableName)

\* the step ran the synthesizer for tableName: a generate of it, or a
\* refresh in which it was selected
Synthesized(tableName) ==
    /\ ncmd' = ncmd + 1
    /\ \/ op'.name = "generate" /\ op'.table = tableName
       \/ op'.name = "refresh" /\ tableName \in op'.selected

\* the guards a route module carries, read off its endpoint chains
CarriesGuards(text, options) ==
    text.chain = [e \in Endpoints |->
                     RouteChain(e, options.requiresAuth, options.hasFileUploads)]

\* C1: every refresh recovers, for each model it discovered, exactly the
\* options the model was generated with, and the route module it
\* regenerates for a selected model carries the same auth guard and upload
\* step as the operator chose.
C1_OptionRoundTrip ==
    op.name = "refresh" =>
        \A i \in 1..Len(op.existingApis) :
            LET api == op.existingApis[i]
            IN  /\ Options(api.requiresAuth, api.hasFileUploads) = chosen[api.tableName]
                /\ api.tableName \in op.selected =>
                      CarriesGuards(routeFile[Stem(api.tableName)], chosen[api.tableName])

\* C2: after any sequence of generate and refresh commands no mount path is
\* registered by two mount statements of index.ts.
C2_NoDuplicateMountPath ==
    \A s \in Stems : MountCount(registry, s) <= 1

\* the properties of the validators a model's route module validates with:
\* built from the embedded field list, or imported from the validation file
CreateProperties(s) ==
    IF routeFile[s].validators = "embedded"
    THEN {[name |-> routeFile[s].fields[i].name,
           optional |-> ~routeFile[s].fields[i].isRequired] :
              i \in 1..Len(routeFile[s].fields)}
    ELSE IF validationFile[s] = NoFile THEN {}
    ELSE {[name |-> validationFile[s].createSchema[i].name,
           optional |-> validationFile[s].createSchema[i].optional] :
              i \in 1..Len(validationFile[s].createSchema)}

\* generateUpdateSchema / createSchema.partial(): every property optional
UpdateProperties(s) ==
    {[name |-> pr.name, optional |-> TRUE] : pr \in CreateProperties(s)}

HasCoverImage(sch, tableName) ==
    \E i \in 1..Len(sch[tableName]) : sch[tableName][i] = CoverImage

\* C8: after a refresh in which a model was selected whose schema block has
\* gained the optional coverImage field, the model's update validator and
\* its create validator contain coverImage as an optional property.
C8_RefreshUpdatesValidators ==
    op.name = "refresh" =>
        \A t \in op.selected :
            HasCoverImage(schema, t) =>
                /\ [name |-> "coverImage", optional |-> TRUE] \in UpdateProperties(Stem(t))
                /\ [name |-> "coverImage", optional |-> TRUE] \in CreateProperties(Stem(t))

AllFourExist(s) ==
    /\ routeFile[s] # NoFile
    /\ controllerFile[s] # NoFile
    /\ serviceFile[s] # NoFile
    /\ validationFile[s] # NoFile

ModelStems == {s \in Stems \ {metadata} : routeFile[s] # NoFile}
ModelsOfFiles == {routeFile[s].table : s \in ModelStems}
ModelNamesInDirOrder ==
    LET stems == SelectSeq(DirOrder, LAMBDA s : s \in ModelStems)
    IN  [i \in 1..Len(stems) |-> routeFile[stems[i]].table]

\* index.ts after updateRouteIndex ran for each name in turn
RECURSIVE AddRoutes(_, _)
AddRoutes(reg, names) ==
    IF names = <<>> THEN reg
    ELSE AddRoutes(UpdateRouteIndex(reg, Head(names)), Tail(names))

\* index.ts after generateRouteIndexFile ran on the directory
Rebuilt == GenerateRouteIndexFile(build, routeFile).registry

\* the registries an incremental build-up starts from
StartRegistries == {InitialRouteIndex(build), NoIndex}

\* C3: for every registry and every model name, a second updateRouteIndex
\* call for the name finds its import and writes nothing, so two calls
\* leave the same file as one.
C3_AddRouteIdempotent ==
    \A t \in Tables :
        LET once == UpdateRouteIndex(registry, t)
        IN  /\ ~NeedsInsert(ReadRouteIndex(once), t)
            /\ UpdateRouteIndex(once, t) = once

\* a second call for Post that found the import of the first and wrote nothing
C3_Witness ==
    /\ op.name = "addRoute"
    /\ op.table = Post
    /\ ~op.wrote
    /\ \E i \in 1..Len(registry) : registry[i] = NewImport(Post)

C5_RebuildExactlyModels ==
    op.name = "rebuild" => MountPaths(registry) = ModelStems

\* C5 amended: after a rebuild the mount path set is exactly the paths of
\* the models that have a route file, plus /metadata when the sources
\* maintain the metadata route; each is mounted once, whatever the
\* registry held before.
C5_RebuildConverges ==
    op.name = "rebuild" =>
        /\ MountPaths(registry)
              = ModelStems \cup (IF build = "metadata" THEN {metadata} ELSE {})
        /\ \A s \in MountPaths(registry) : MountCount(registry, s) = 1

\* a rebuild over two or more route files that dropped an entry of the
\* prior registry
C5_Witness ==
    /\ op.name = "rebuild"
    /\ Cardinality(ModelStems) >= 2
    /\ op.dropped # {}

\* the step is the write of call p, and another model's insertion reached
\* index.ts after p had read it
StaleWrite(p, other) ==
    /\ pc[p] = "read"
    /\ pc'[p] = "idle"
    /\ NeedsInsert(content[p], arg[p])
    /\ other # arg[p]
    /\ ~IncludesImportOf(content[p], other)
    /\ IncludesImportOf(ReadRouteIndex(registry), other)

HasLine(text, line) == \E i \in 1..Len(text) : text[i] = line

\* C6: when a call writes after another model's insertion landed between
\* its read and its write, the file it leaves holds its own import and
\* mount and neither the import nor the mount of the other model, and the
\* call ends as a normal write.
C6_LastWriterWins ==
    [][\A p \in Procs, other \in Tables :
          StaleWrite(p, other) =>
              /\ HasLine(registry', NewImport(arg[p]))
              /\ HasLine(registry', NewRoute(arg[p]))
              /\ ~IncludesImportOf(registry', other)
              /\ ~HasLine(registry', NewRoute(other))
              /\ op'.wrote]_vars

\* both calls have returned and an insertion was overwritten
C6_Witness ==
    /\ op.name = "addRoute"
    /\ op.wrote
    /\ op.lost # {}
    /\ \A p \in Procs : pc[p] = "idle"

ImportsOf(text) == SelectSeq(text, StartsWithImport)
MountsOf(text) == SelectSeq(text, IncludesRouterUse)
IndexOf(text, line) == CHOOSE i \in 1..Len(text) : text[i] = line
Count(text, line) == Cardinality({i \in 1..Len(text) : text[i] = line})

\* C7: when updateRouteIndex inserts a model into the registry it read,
\* the import lines and the mount statements of that registry are all kept
\* in their order with one import and one mount for the model appended,
\* and the file is ordered imports, router declaration, mounts, export.
C7_InsertPreservesRest ==
    [][\A p \in Procs :
          (/\ pc[p] = "read"
           /\ pc'[p] = "idle"
           /\ NeedsInsert(content[p], arg[p])
           /\ content[p] = ReadRouteIndex(registry)) =>
              /\ ImportsOf(registry') = Append(ImportsOf(content[p]), NewImport(arg[p]))
              /\ MountsOf(registry') = Append(MountsOf(content[p]), NewRoute(arg[p]))
              /\ Count(registry', RouterDecl) = 1
              /\ Count(registry', ExportDefault) = 1
              /\ registry'[Len(registry')] = ExportDefault
              /\ \A i \in 1..Len(registry') :
                    /\ StartsWithImport(registry'[i]) => i < IndexOf(registry', RouterDecl)
                    /\ IncludesRouterUse(registry'[i]) =>
                          /\ IndexOf(registry', RouterDecl) < i
                          /\ i < IndexOf(registry', ExportDefault)]_vars

\* an insert into a registry that already held imports and mounts
C7_Witness ==
    /\ op.name = "addRoute"
    /\ op.wrote
    /\ op.lost = {}
    /\ Len(MountsOf(registry)) >= 3
    /\ Len(ImportsOf(registry)) >= 4

(***************************************************************************)
(* Properties of the generated endpoints (checked under ServeSpec)         *)
(***************************************************************************)
Ran(mw) == \E i \in 1..Len(resp.ran) : resp.ran[i] = mw

\* the request carries a Bearer header whose token verifies
Authenticated(req) ==
    /\ req.authorization.present
    /\ req.authorization.scheme = "Bearer"
    /\ req.authorization.verifies

\* C10: on every endpoint of a model generated with requiresAuth, a request
\* without a verifying Bearer header is answered 401 by the auth check and
\* nothing after it runs; on a model generated without requiresAuth the
\* auth check never runs.
C10_AuthGating ==
    resp # None =>
        /\ (chosen[resp.table].requiresAuth /\ ~Authenticated(resp.request)) =>
              /\ resp.status = 401
              /\ resp.ran = <<"auth">>
        /\ ~chosen[resp.table].requiresAuth => ~Ran("auth")

\* a create request with no Authorization header, refused by a model that
\* was generated with both options
C10_Witness ==
    /\ resp # None
    /\ resp.endpoint = "create"
    /\ chosen[resp.table] = Options(TRUE, TRUE)
    /\ resp.request.authorization = NoHeader
    /\ resp.status = 401

(***************************************************************************)
(* Properties of the validators (checked under ValidateSpec)               *)
(***************************************************************************)
\* the body the validation step and the handler of the response saw
SeenBody ==
    ParsedBody(SubSeq(resp.ran, 1, Len(resp.ran) - 1), resp.request)

RequiredColumns(lines) == {lines[i].name : i \in {k \in 1..Len(lines) : ~lines[k].optional}}

\* the body holds every required column, and every value it holds is of
\* its column's semantic type
HoldsCreateShape(lines, body) ==
    /\ RequiredColumns(lines) \subseteq DOMAIN body.props
    /\ \A n \in DOMAIN body.props : body.props[n].type = CanonicalValue(LineOf(lines, n)).type

\* C11: a create request that got as far as validation and whose body holds
\* every required field with a value of its semantic type passes validation
\* and is answered 201 by the create handler; one whose body lacks a
\* required field is answered 400 and the handler does not run.
C11_CreateValidation ==
    (resp # None /\ resp.endpoint = "create" /\ HasRun(resp.ran, "validate")) =>
        /\ HoldsCreateShape(db[resp.table], SeenBody) =>
              /\ HasRun(resp.ran, "controller")
              /\ resp.status = 201
        /\ ~(RequiredColumns(db[resp.table]) \subseteq DOMAIN SeenBody.props) =>
              /\ ~HasRun(resp.ran, "controller")
              /\ resp.status = 400

\* the schema the create and update validators of a model apply to a body
CreateBodySchema(t) ==
    IF routeFile[Stem(t)].validators = "embedded"
    THEN GenerateCreateSchema(routeFile[Stem(t)].fields).shape[1]
    ELSE FileCreateSchema(validationFile[Stem(t)])

UpdateBodySchema(t) ==
    IF routeFile[Stem(t)].validators = "embedded"
    THEN GenerateUpdateSchema(routeFile[Stem(t)].fields).shape[2]
    ELSE FileUpdateSchema(validationFile[Stem(t)])

\* a body holding the named fields, each with a value of its descriptor's type
DescriptorBody(fields, names) ==
    Obj([n \in names |->
            IF \E i \in 1..Len(fields) : fields[i].name = n /\ fields[i].type = "number"
            THEN Num ELSE Text])

Descriptors(t) == GetTableFields(db, t).fields
DescriptorNames(t) == {Descriptors(t)[i].name : i \in 1..Len(Descriptors(t))}

\* C12: for every model, whichever of its fields are required, the update
\* validator accepts the body that omits any subset of the fields, and no
\* property of the update validator is required.
C12_UpdateFullyPartial ==
    \A t \in DbTables :
        /\ \A names \in SUBSET DescriptorNames(t) :
              Parses(UpdateBodySchema(t), DescriptorBody(Descriptors(t), names))
        /\ \A i \in 1..Len(UpdateBodySchema(t).shape) : UpdateBodySchema(t).shape[i].optional

\* an update that omitted a required field and was answered 200
C12_Witness ==
    /\ resp # None
    /\ resp.endpoint = "update"
    /\ resp.status = 200
    /\ RequiredColumns(db[resp.table]) # {}
    /\ ~(RequiredColumns(db[resp.table]) \subseteq DOMAIN SeenBody.props)

\* the names the create validator of a model requires
RequiredByCreate(t) ==
    {CreateBodySchema(t).shape[i].name :
        i \in {k \in 1..Len(CreateBodySchema(t).shape) : ~CreateBodySchema(t).shape[k].optional}}

\* C13: for every model the create validator requires a field if and only
\* if its descriptor has isRequired; for Post it requires id, title and
\* authorId, accepts a body without body and rejects one without title.
C13_CreateRequiredness ==
    /\ \A t \in DbTables :
          \A i \in 1..Len(Descriptors(t)) :
              Descriptors(t)[i].name \in RequiredByCreate(t) <=> Descriptors(t)[i].isRequired
    /\ RequiredByCreate(Post) = {"id", "title", "authorId"}
    /\ Parses(CreateBodySchema(Post), BodyOf(db[Post], {"id", "title", "authorId"}))
    /\ ~Parses(CreateBodySchema(Post), BodyOf(db[Post], {"id", "body", "authorId"}))

\* a create of a Post without its optional body that the handler answered 201
C13_Witness ==
    /\ resp # None
    /\ resp.table = Post
    /\ resp.endpoint = "create"
    /\ resp.request.body = BodyOf(db[Post], {"id", "title", "authorId"})
    /\ resp.status = 201

(***************************************************************************)
(* Further properties of the generated endpoints (checked under ServeSpec) *)
(***************************************************************************)
\* the position of a middleware in the sequence that ran (0 if it did not)
PositionOf(mw) ==
    IF Ran(mw) THEN CHOOSE i \in 1..Len(resp.ran) : resp.ran[i] = mw ELSE 0

\* the request is past the auth check: the model has none, or it passed
PastAuth ==
    ~chosen[resp.table].requiresAuth \/ Authenticated(resp.request)

\* C14: on a model generated with hasFileUploads the create and update
\* endpoints run the upload step for every request that is past the auth
\* check, right after the auth check (first if there is none) and before
\* validation; the list, get-by-id and delete endpoints never run it, and
\* without hasFileUploads no endpoint runs it.
C14_UploadPlacement ==
    resp # None =>
        IF chosen[resp.table].hasFileUploads /\ resp.endpoint \in {"create", "update"}
        THEN /\ Ran("uploadFile") <=> PastAuth
             /\ Ran("uploadFile") =>
                   /\ PositionOf("uploadFile") = PositionOf("auth") + 1
                   /\ Ran("validate") => PositionOf("uploadFile") < PositionOf("validate")
                   /\ Cardinality({i \in 1..Len(resp.ran) : resp.ran[i] = "uploadFile"}) = 1
        ELSE ~Ran("uploadFile")

\* an authenticated create with a file on a model generated with both
\* options: auth, then the upload step, then validation
C14_Witness ==
    /\ resp # None
    /\ resp.endpoint = "create"
    /\ chosen[resp.table] = Options(TRUE, TRUE)
    /\ resp.request.file = "image/png"
    /\ Len(resp.ran) >= 3
    /\ SubSeq(resp.ran, 1, 3) = <<"auth", "uploadFile", "validate">>

\* C20: when the handler of GET, PATCH or DELETE /:id runs for an id with no
\* record the answer is 404, and DELETE of an existing record is answered
\* 204.
C20_AbsentRecord ==
    (resp # None /\ Ran("controller")) =>
        /\ (resp.endpoint \in {"getOne", "update", "delete"} /\ ~resp.request.exists) =>
              resp.status = 404
        /\ (resp.endpoint = "delete" /\ resp.request.exists) => resp.status = 204

(***************************************************************************)
(* Properties of the refresh command (checked under EditSpec)              *)
(***************************************************************************)
\* a step of the refresh command
RefreshStep == op'.name = "refresh" /\ ncmd' = ncmd + 1

\* C15: a refresh leaves the route, controller, service and validation files
\* of every discovered model that the operator did not select exactly as
\* they were before the command
C15_RefreshFrame ==
    [][RefreshStep =>
          \A t \in ApiNames(op'.existingApis) \ op'.selected :
              /\ routeFile'[Stem(t)] = routeFile[Stem(t)]
              /\ controllerFile'[Stem(t)] = controllerFile[Stem(t)]
              /\ serviceFile'[Stem(t)] = serviceFile[Stem(t)]
              /\ validationFile'[Stem(t)] = validationFile[Stem(t)]]_vars

\* a refresh of one of two discovered models has run, and the hand-edited
\* route file of the other one is still the developer's
C15_Witness ==
    /\ op.name = "refresh"
    /\ op.selected # {}
    /\ \E t \in ApiNames(op.existingApis) \ op.selected :
          routeFile[Stem(t)] # NoFile /\ routeFile[Stem(t)].custom

(***************************************************************************)
(* Properties of discovery and of the commands on a drifting project       *)
(* (checked under DriftSpec, DropSpec and Spec)                            *)
(***************************************************************************)
\* the names the registry lists
Listed == {RouteImports(registry)[i] : i \in 1..Len(RouteImports(registry))}

\* C16: in the discovery of a refresh, a registry-listed model with a
\* missing route, controller or service file is left out of the refreshable
\* set, and every registry-listed model whose three files exist is in it
C16_DiscoverySkipsIncomplete ==
    [][RefreshStep =>
          \A t \in Listed : FilesExist(Files, t) <=> t \in ApiNames(op'.existingApis)]_vars

\* C17: a refresh during which a read of the schema failed ends with a
\* non-zero exit status, and the errors of the two causes differ
C17_SchemaFailureAborts ==
    (op.name = "refresh" /\ op.swallowed # {}) =>
        /\ op.exit = 1
        /\ Rethrown(ReadFileError) # Rethrown(ModelNotFoundError)

\* the per-model route files present
RouteStems == {s \in Stems : routeFile[s] # NoFile}

\* C18: after every successful generate, and after every successful refresh
\* of at least one model, the collection file has been written during that
\* invocation and has one folder per route file present
C18_CollectionRegenerated ==
    (/\ op.name \in {"generate", "refresh"}
     /\ op.exit = 0
     /\ op.name = "refresh" => op.selected # {}) =>
        /\ collectionFile # NoFile
        /\ collectionFile.during = ncmd
        /\ DOMAIN collectionFile.folders = RouteStems

\* C19: no command removes a per-model route, controller, service or
\* validation file: each one present before a generate or a refresh is
\* present after it, also when its model has left the schema
C19_NoDeletion ==
    [][ncmd' = ncmd + 1 =>
          \A s \in Stems :
              /\ routeFile[s] # NoFile => routeFile'[s] # NoFile
              /\ controllerFile[s] # NoFile => controllerFile'[s] # NoFile
              /\ serviceFile[s] # NoFile => serviceFile'[s] # NoFile
              /\ validationFile[s] # NoFile => validationFile'[s] # NoFile]_vars

\* a command has pulled a schema from which a table was dropped, and the
\* four files generated for that table are still there
C19_Witness ==
    /\ op.name \in {"generate", "refresh"}
    /\ schema = db
    /\ \E t \in DroppedTables : AllFourExist(Stem(t))

(***************************************************************************)
(* Properties of the schema reader (checked under ReaderSpec)              *)
(***************************************************************************)
\* the fixed table of semantic types
FixedTable(type) ==
    CASE type = "String" -> "string"
      [] type \in {"Int", "Float"} -> "number"
      [] type = "Boolean" -> "boolean"
      [] type = "DateTime" -> "date"
      [] type = "Json" -> "object"
      [] OTHER -> "string"

\* the field lines of the block a getTableFields call has read
LinesRead == schema[op.table]
ReadDone == op.name = "getTableFields" /\ op.result.ok

\* C21: for a type token without ?, the semantic type returned is the one of
\* the fixed table: string for String, number for Int and Float, boolean,
\* date, object, and string for every other token
C21_TypeTable ==
    ReadDone =>
        \A i \in 1..Len(LinesRead) :
            ~LinesRead[i].optional =>
                op.result.fields[i].type = FixedTable(LinesRead[i].type)

\* C27: a field line whose type token carries a trailing ? is read as not
\* required and with the semantic type of its base type
C27_OptionalKeepsType ==
    ReadDone =>
        \A i \in 1..Len(LinesRead) :
            LinesRead[i].optional =>
                /\ ~op.result.fields[i].isRequired
                /\ op.result.fields[i].type = FixedTable(LinesRead[i].type)

(***************************************************************************)
(* Properties of discovery after the commands (checked under Spec)         *)
(***************************************************************************)
\* the models a generate command has completed for (no file is removed
\* under Spec)
GeneratedModels == {t \in DbTables : chosen[t] # None}

\* the set a refresh discovery would return in the current state
Discoverable == ApiNames(GetExistingTableApis(Files, schema))

\* C22: every model for which generate has completed is in the set that
\* refresh discovery returns, whatever the letter case of its name
C22_GeneratedDiscoverable == \A t \in GeneratedModels : t \in Discoverable

\* C23: after generate and after each refresh, the model names the registry
\* lists (the system route aside) are names declared in the schema, case
\* preserved
C23_RegistryKeepsNames ==
    op.name \in {"generate", "refresh"} =>
        \A t \in Listed \ {metadata} : t \in DOMAIN schema

(***************************************************************************)
(* Properties of the writes of one generate command (checked under Spec)   *)
(***************************************************************************)
\* the paths at which the project b differs from the project a
RegistryPath == <<"registry", <<>>>>
Changed(a, b) ==
    {p \in {"routeFile", "controllerFile", "serviceFile", "validationFile"} \X Stems :
        a[p[1]][p[2]] # b[p[1]][p[2]]}
    \cup (IF a.registry # b.registry THEN {RegistryPath} ELSE {})

\* a step of the generate command
GenerateStep == op'.name = "generate" /\ ncmd' = ncmd + 1

\* C24: the three generators that one generate command runs concurrently
\* write pairwise disjoint sets of paths, and none of them writes the
\* registry file
C24_ArtifactsLeaveRegistry ==
    [][GenerateStep =>
          LET t == op'.table
              fields == GetTableFields(db, t).fields
              byService == Changed(Files, GenerateService(Files, t))
              byController == Changed(Files, GenerateController(Files, t))
              byRoute == Changed(Files, GenerateRoute(build, Files, t, fields,
                                                      op'.options.requiresAuth,
                                                      op'.options.hasFileUploads))
          IN  /\ byService \cap byController = {}
              /\ byService \cap byRoute = {}
              /\ byController \cap byRoute = {}
              /\ RegistryPath \notin byService \cup byController \cup byRoute]_vars

(***************************************************************************)
(* Properties of the refresh loop (checked under Spec)                     *)
(***************************************************************************)
\* the entry discovery made for a model
ApiOf(apis, t) == apis[CHOOSE i \in 1..Len(apis) : apis[i].tableName = t]

\* C25: the route module a refresh writes for a selected model is
\* synthesized from the field list of the schema as pulled in that run
C25_RefreshUsesPulledSchema ==
    [][RefreshStep =>
          \A t \in op'.selected :
              GetTableFields(schema', t).ok =>
                  routeFile'[Stem(t)] =
                      RouteContent(build, t, GetTableFields(schema', t).fields,
                                   ApiOf(op'.existingApis, t).requiresAuth,
                                   ApiOf(op'.existingApis, t).hasFileUploads)]_vars

\* a refresh has rewritten the route module of a model whose table had
\* gained a column since discovery's schema was pulled: the module differs
\* from the one the discovery field list gives
C25_Witness ==
    /\ op.name = "refresh"
    /\ \E t \in op.selected :
          /\ ApiOf(op.existingApis, t).fields # GetTableFields(schema, t).fields
          /\ routeFile[Stem(t)] #
                 RouteContent(build, t, ApiOf(op.existingApis, t).fields,
                              ApiOf(op.existingApis, t).requiresAuth,
                              ApiOf(op.existingApis, t).hasFileUploads)

C28_MetadataAuthTruthful ==
    (resp # None /\ resp.status = 200) =>
        \A t \in DbTables :
            resp.body.endpoints[ToLowerCase(t)].requiresAuth = chosen[t].requiresAuth

\* C29: with interleaved getMetadata calls that found the cache stale,
\* cacheLastUpdated never decreases, and a stored snapshot is never replaced
\* by the snapshot of a request that entered earlier.
C29_CacheTimestampMonotone ==
    [][/\ cacheLastUpdated' >= cacheLastUpdated
       /\ (metadataCache # None /\ metadataCache' # metadataCache)
             => metadataCache'.request > metadataCache.request]_vars

\* the request a step answers, when it answers one
Answered == resp' # resp
\* the request a step lets in
Entering(r) == metadataCalls[r].pc = "unsent" /\ metadataCalls'[r].pc # "unsent"

\* C30: every successful response at time t is a snapshot computed during
\* that request or the cached snapshot, whose timestamp t0 has
\* t - t0 < CACHE_TTL; a request that finds t - t0 >= CACHE_TTL recomputes
\* from the filesystem; a request whose recomputation fails leaves the
\* cached snapshot and its timestamp unchanged.
C30_CacheFreshness ==
    [][/\ (Answered /\ resp'.status = 200) =>
             \/ resp'.body.request = resp'.request
             \/ /\ resp'.body = metadataCache
                /\ resp'.now - cacheLastUpdated < CACHE_TTL
       /\ \A r \in 1..MaxCalls :
             (Entering(r) /\ metadataCache # None /\ clock - cacheLastUpdated >= CACHE_TTL)
                => /\ metadataCalls'[r].pc = "awaiting"
                   /\ ~Answered
       /\ (Answered /\ resp'.status = 500) =>
             /\ metadataCache' = metadataCache
             /\ cacheLastUpdated' = cacheLastUpdated]_vars

\* one request stored its snapshot, another was answered from the cache, and
\* a third met the stored snapshot stale, recomputed and failed
C30_Witness ==
    /\ metadataCache # None
    /\ \E r \in 1..MaxCalls : metadataCalls[r].pc = "cached"
    /\ \E r \in 1..MaxCalls :
          /\ metadataCalls[r].pc = "rejected"
          /\ resp.request = r
          /\ resp.now - cacheLastUpdated >= CACHE_TTL
          /\ metadataCache.request < r

====
